---- MODULE Spec2Model ----
(***************************************************************************)
(* Symbol table of src/lib/symbol-table.cc: the open-addressing interning  *)
(* index (DenseSymbolMap), the dense/sparse key remapper (SymbolTableImpl) *)
(* and the lazily computed checksum pair.                                  *)
(*                                                                         *)
(* Symbols are strings; the model draws them from 0..NumSymbols-1, where 0 *)
(* stands for the empty string "" (which Find also returns for "not        *)
(* found").  Storage positions are 0-based as in the code; TLA+ sequences  *)
(* are 1-based, so position p of a vector v is v[p + 1].                   *)
(***************************************************************************)
EXTENDS Integers, Sequences, FiniteSets, TLC

\* ---------------------------------------------------------------- bounds
\* Number of distinct symbol strings the callers use.
NumSymbols == 3
\* Largest key a caller supplies.
MaxKey == 2
\* Number of threads that request checksums.
NumThreads == 2
\* Number of lines a text file has at most.
MaxLines == 2
\* Number of distinct strings interned into a DenseSymbolMap alone: more
\* than 24, so that buckets_ doubles twice (at 12 and at 24 strings).
NumIndexSymbols == 26

\* ------------------------------------------------------------- constants
\* The empty string, Find's "not found" answer.
EmptyString == 0
\* Reserved key (fst/symbol-table.h).
kNoSymbol == -1
\* Empty bucket marker (fst/symbol-table.h).
kEmptyBucket == -1
\* 1 << 4 buckets at construction.
kInitialBuckets == 16
\* Identifies stream data as a symbol table.
kSymbolTableMagicNumber == 2125658996
\* Maximum line length in textual symbols file.
kLineLen == 8096

Symbols == 0..(NumSymbols - 1)
\* The keys callers supply: the reserved key, one negative key below it,
\* and 0..MaxKey.
Keys == (kNoSymbol - 1)..MaxKey

Max(a, b) == IF a >= b THEN a ELSE b
Range(v) == {v[i] : i \in 1..Len(v)}

\* ------------------------------------------------- DenseSymbolMap (index)
\* buckets_ is the sequence bk: bucket b is bk[b + 1].
NumBuckets(bk) == Len(bk)
HashMask(bk) == NumBuckets(bk) - 1

\* std::hash<std::string>: some fixed function of the string; this one makes
\* strings collide in the bucket array (8 s & 15 is 0 or 8).
StrHash(s) == 8 * s

\* x & hash_mask_, for hash_mask_ = 2^n - 1.
GetHash(s, bk) == StrHash(s) % (HashMask(bk) + 1)

EmptyBuckets(num_buckets) == [b \in 1..num_buckets |-> kEmptyBucket]

\* DenseSymbolMap's constructor: no symbol, 1 << 4 empty buckets.
EmptyIndex == EmptyBuckets(kInitialBuckets)

\* The probe of Rehash: the first empty bucket from idx on.
RECURSIVE ProbeEmpty(_, _)
ProbeEmpty(bk, idx) ==
  IF bk[idx + 1] = kEmptyBucket THEN idx
  ELSE ProbeEmpty(bk, (idx + 1) % (HashMask(bk) + 1))

RECURSIVE RehashFrom(_, _, _)
RehashFrom(sy, bk, i) ==
  IF i >= Len(sy) THEN bk
  ELSE LET idx == ProbeEmpty(bk, GetHash(sy[i + 1], bk))
       IN  RehashFrom(sy, [bk EXCEPT ![idx + 1] = i], i + 1)

\* The slip of the loop bound i < Size() - 1, which leaves the last string out.
RehashSkipsLast(sy, num_buckets) ==
  RehashFrom(SubSeq(sy, 1, Len(sy) - 1), EmptyBuckets(num_buckets), 0)

Rehash(sy, num_buckets) == RehashFrom(sy, EmptyBuckets(num_buckets), 0)

\* The number of buckets the probe of InsertOrFind and Find looks at from idx
\* on before it stops, counted up to fuel; fuel + 1 if it has not stopped by
\* then.
RECURSIVE ProbeLength(_, _, _, _, _)
ProbeLength(sy, bk, idx, key, fuel) ==
  IF fuel = 0 THEN 1
  ELSE IF bk[idx + 1] = kEmptyBucket \/ sy[bk[idx + 1] + 1] = key THEN 1
  ELSE 1 + ProbeLength(sy, bk, (idx + 1) % (HashMask(bk) + 1), key, fuel - 1)

\* The probe of InsertOrFind and Find: the bucket where the probe for key
\* stops, and what it holds (the position of key, or kEmptyBucket).
RECURSIVE Probe(_, _, _, _)
Probe(sy, bk, idx, key) ==
  IF bk[idx + 1] = kEmptyBucket
  THEN [idx |-> idx, stored_value |-> kEmptyBucket]
  ELSE IF sy[bk[idx + 1] + 1] = key
  THEN [idx |-> idx, stored_value |-> bk[idx + 1]]
  ELSE Probe(sy, bk, (idx + 1) % (HashMask(bk) + 1), key)

\* The slip of growing only when full: Size() >= buckets_.size().
InsertOrFindGrowsWhenFull(sy, bk, key) ==
  LET bk1 == IF Len(sy) >= NumBuckets(bk)
             THEN Rehash(sy, NumBuckets(bk) * 2) ELSE bk
      p == Probe(sy, bk1, GetHash(key, bk1), key)
  IN  IF p.stored_value # kEmptyBucket
      THEN [symbols |-> sy, buckets |-> bk1,
            first |-> p.stored_value, second |-> FALSE]
      ELSE [symbols |-> Append(sy, key),
            buckets |-> [bk1 EXCEPT ![p.idx + 1] = Len(sy)],
            first |-> Len(sy), second |-> TRUE]

\* Grows when 75% full: Size() >= 0.75 * buckets_.size().
InsertOrFind(sy, bk, key) ==
  LET bk1 == IF 4 * Len(sy) >= 3 * NumBuckets(bk)
             THEN Rehash(sy, NumBuckets(bk) * 2) ELSE bk
      p == Probe(sy, bk1, GetHash(key, bk1), key)
  IN  IF p.stored_value # kEmptyBucket
      THEN [symbols |-> sy, buckets |-> bk1,
            first |-> p.stored_value, second |-> FALSE]
      ELSE [symbols |-> Append(sy, key),
            buckets |-> [bk1 EXCEPT ![p.idx + 1] = Len(sy)],
            first |-> Len(sy), second |-> TRUE]

DenseFind(sy, bk, key) == Probe(sy, bk, GetHash(key, bk), key).stored_value

\* The slip of removing by moving the last element into the gap.
EraseMovesLast(v, idx) ==
  SubSeq([v EXCEPT ![idx + 1] = v[Len(v)]], 1, Len(v) - 1)

\* symbols_.erase(symbols_.begin() + idx)
Erase(v, idx) == SubSeq(v, 1, idx) \o SubSeq(v, idx + 2, Len(v))

DenseRemoveSymbol(sy, bk, idx) ==
  LET sy1 == Erase(sy, idx)
  IN  [symbols |-> sy1, buckets |-> Rehash(sy1, NumBuckets(bk))]

\* ------------------------------------------------------- SymbolTableImpl
VARIABLES
  symbols,                   \* symbols_.symbols_: the strings, by position
  buckets,                   \* symbols_.buckets_: positions or kEmptyBucket
  key_map,                   \* key_map_: sparse key -> position
  idx_key,                   \* idx_key_: position - dense_key_limit_ -> key
  dense_key_limit,           \* dense_key_limit_
  available_key,             \* available_key_
  check_sum_finalized,       \* check_sum_finalized_
  check_sum_string,          \* check_sum_string_
  labeled_check_sum_string,  \* labeled_check_sum_string_
  in_order,                  \* history: whether the calls so far were
                             \* exactly AddSymbol(s_k, k), k = 0..n-1, on
                             \* distinct symbols, and then <<s_0..s_n-1>>
  max_inserted,              \* history: largest key ever inserted
                             \* (NoneInserted if none)
  max_since_lowered,         \* history: largest key inserted since
                             \* RemoveSymbol last lowered available_key_
                             \* (NoneInserted if none)
  name,                      \* name_
  pc,                        \* where each thread is in MaybeRecomputeCheckSum
  check_sum_mutex,           \* check_sum_mutex_: who holds it, and how
  recomputations,            \* history: how often the checksums were computed
  fatal,                     \* whether LOG(FATAL) has ended the process
  text_strm,                 \* the characters of a text file
  typed,                     \* history: the lines of text_strm, as columns
  loaded                     \* what ReadText returned: a table (then the
                             \* table above) or nullptr, and under which
                             \* options

tvars == <<symbols, buckets, key_map, idx_key, dense_key_limit, available_key,
           check_sum_finalized, check_sum_string, labeled_check_sum_string,
           name>>
\* The history of the single-threaded callers.
hvars == <<in_order, max_inserted, max_since_lowered>>
\* What the single-threaded callers of a mutable table leave alone.
xvars == <<pc, check_sum_mutex, recomputations, fatal, text_strm, typed,
           loaded>>
\* The text file and its load.
text == <<text_strm, typed, loaded>>
vars == <<tvars, hvars, xvars>>

\* The table as one value.
Table ==
  [symbols |-> symbols, buckets |-> buckets, key_map |-> key_map,
   idx_key |-> idx_key, dense_key_limit |-> dense_key_limit,
   available_key |-> available_key,
   check_sum_finalized |-> check_sum_finalized,
   check_sum_string |-> check_sum_string,
   labeled_check_sum_string |-> labeled_check_sum_string,
   name |-> name]

Size(t) == Len(t.symbols)
GetSymbol(t, pos) == t.symbols[pos + 1]

\* std::map<int64, int64> as a function on its keys.
MapPut(m, k, v) == [x \in (DOMAIN m) \cup {k} |-> IF x = k THEN v ELSE m[x]]
MapErase(m, k) == [x \in (DOMAIN m) \ {k} |-> m[x]]
EmptyMap == [x \in {} |-> 0]

\* SymbolTableImpl::Find(int64 key): the position key resolves to, or
\* kNoSymbol where the code returns "".
FindPos(t, key) ==
  IF (key < 0 \/ key >= t.dense_key_limit) /\ key \notin DOMAIN t.key_map
  THEN kNoSymbol
  ELSE LET idx == IF key < 0 \/ key >= t.dense_key_limit
                  THEN t.key_map[key] ELSE key
       IN  IF idx < 0 \/ idx >= Size(t) THEN kNoSymbol ELSE idx

Find(t, key) ==
  IF FindPos(t, key) = kNoSymbol THEN EmptyString
  ELSE GetSymbol(t, FindPos(t, key))

\* Whether Find(key) consults key_map_ (the sparse path).
FindUsesKeyMap(t, key) == key < 0 \/ key >= t.dense_key_limit

\* SymbolTableImpl::Find(const std::string &) (fst/symbol-table.h): the key
\* of a symbol by its position, the identity in the dense range.
ReverseFind(t, symbol) ==
  LET idx == DenseFind(t.symbols, t.buckets, symbol)
  IN  IF idx = kNoSymbol \/ idx < t.dense_key_limit THEN idx
      ELSE t.idx_key[idx - t.dense_key_limit + 1]

\* SymbolTableImpl::GetNthKey (fst/symbol-table.h).
GetNthKey(t, pos) ==
  IF pos < 0 \/ pos >= Size(t) THEN kNoSymbol
  ELSE IF pos < t.dense_key_limit THEN pos
  ELSE ReverseFind(t, GetSymbol(t, pos))

\* ---- AddSymbol
\* A slip: the position of the new symbol is not compared.
ExtendsDenseRangeAnyPosition(size, key, dense) == key = dense

\* A slip: the key is compared to Size(), not to the new position Size() - 1.
ExtendsDenseRangeOffByOne(size, key, dense) == key = size /\ key = dense

\* key + 1 == symbols_.Size() && key == dense_key_limit_
ExtendsDenseRange(size, key, dense) == key + 1 = size /\ key = dense

\* A slip: > for >=.
NextAvailableKeyStrict(key, avail) == IF key > avail THEN key + 1 ELSE avail

\* if (key >= available_key_) available_key_ = key + 1;
NextAvailableKey(key, avail) == IF key >= avail THEN key + 1 ELSE avail

\* A slip: the requested key is returned, not the key the symbol has.
AddExistingReturnsNewKey(t, pos, key) ==
  [t |-> t, ret |-> key, inserted |-> FALSE]

\* The symbol is already at position pos: the new key is ignored.
AddExisting(t, pos, key) ==
  LET key_already == GetNthKey(t, pos)
  IN  [t |-> t, ret |-> IF key_already = key THEN key ELSE key_already,
       inserted |-> FALSE]

\* The symbol is new, at the last position of t.
AddNew(t, key) ==
  LET t2 == IF ExtendsDenseRange(Size(t), key, t.dense_key_limit)
            THEN [t EXCEPT !.dense_key_limit = @ + 1]
            ELSE [t EXCEPT !.idx_key = Append(@, key),
                           !.key_map = MapPut(@, key, Size(t) - 1)]
  IN  [t |-> [t2 EXCEPT !.available_key = NextAvailableKey(key, @),
                        !.check_sum_finalized = FALSE],
       ret |-> key, inserted |-> TRUE]

AddSymbol(t, symbol, key) ==
  IF key = kNoSymbol THEN [t |-> t, ret |-> key, inserted |-> FALSE]
  ELSE LET insert_key == InsertOrFind(t.symbols, t.buckets, symbol)
           t1 == [t EXCEPT !.symbols = insert_key.symbols,
                           !.buckets = insert_key.buckets]
       IN  IF ~insert_key.second THEN AddExisting(t1, insert_key.first, key)
           ELSE AddNew(t1, key)

\* The slip of taking the number of symbols for the next key.
AddSymbolNoKeyUsesSize(t, symbol) == AddSymbol(t, symbol, Size(t))

\* AddSymbol(symbol) (fst/symbol-table.h): AddSymbol(symbol, available_key_).
AddSymbolNoKey(t, symbol) == AddSymbol(t, symbol, t.available_key)

\* ---- RemoveSymbol
\* std::vector::resize: truncates, or pads with zeros.
Resize(v, n) ==
  IF n <= Len(v) THEN SubSeq(v, 1, n)
  ELSE v \o [i \in 1..(n - Len(v)) |-> 0]

\* for (auto &k : key_map_) if (k.second > idx) --k.second;
ShiftKeyMap(m, idx) == [k \in DOMAIN m |-> IF m[k] > idx THEN m[k] - 1 ELSE m[k]]

\* The slip of key_map_[i] = i: the shift of the positions is forgotten.
MigrateDenseKeysKeepsPosition(m, key, dense) ==
  [k \in (DOMAIN m) \cup ((key + 1)..(dense - 1)) |->
     IF k \in (key + 1)..(dense - 1) THEN k ELSE m[k]]

\* for (i = key + 1; i < dense_key_limit_; ++i) key_map_[i] = i - 1;
MigrateDenseKeys(m, key, dense) ==
  [k \in (DOMAIN m) \cup ((key + 1)..(dense - 1)) |->
     IF k \in (key + 1)..(dense - 1) THEN k - 1 ELSE m[k]]

\* for (i = symbols_.Size(); i >= dense_key_limit_; --i)
\*   idx_key_[i - new_dense_key_limit - 1] = idx_key_[i - dense_key_limit_];
RECURSIVE MoveIdxKey(_, _, _, _)
MoveIdxKey(ik, i, new_dense_key_limit, dense) ==
  IF i < dense THEN ik
  ELSE MoveIdxKey([ik EXCEPT ![i - new_dense_key_limit - 1 + 1] = ik[i - dense + 1]],
                  i - 1, new_dense_key_limit, dense)

\* for (i = new_dense_key_limit; i < dense_key_limit_ - 1; ++i)
\*   idx_key_[i - new_dense_key_limit] = i + 1;
RECURSIVE FillDenseKeys(_, _, _, _)
FillDenseKeys(ik, i, new_dense_key_limit, dense) ==
  IF i >= dense - 1 THEN ik
  ELSE FillDenseKeys([ik EXCEPT ![i - new_dense_key_limit + 1] = i + 1],
                     i + 1, new_dense_key_limit, dense)

\* for (i = idx - dense_key_limit_; i + 1 < idx_key_.size(); ++i)
\*   idx_key_[i] = idx_key_[i + 1];
RECURSIVE ShiftIdxKey(_, _)
ShiftIdxKey(ik, i) ==
  IF i + 1 >= Len(ik) THEN ik
  ELSE ShiftIdxKey([ik EXCEPT ![i + 1] = ik[i + 2]], i + 1)

PopBack(v) == SubSeq(v, 1, Len(v) - 1)

\* The removal puts a hole in the dense range: the range becomes [0, key).
RemoveDense(t, key, size) ==
  [t EXCEPT
     !.key_map = MigrateDenseKeys(@, key, t.dense_key_limit),
     !.idx_key = FillDenseKeys(
                   MoveIdxKey(Resize(@, size - key), size, key, t.dense_key_limit),
                   key, key, t.dense_key_limit),
     !.dense_key_limit = key]

\* The slip of dropping the last entry of idx_key_ without moving the entries
\* after the removed one down.
RemoveSparsePopsOnly(t, idx) == [t EXCEPT !.idx_key = PopBack(@)]

\* The removed key was sparse: its idx_key_ entry goes.
RemoveSparse(t, idx) ==
  [t EXCEPT !.idx_key = PopBack(ShiftIdxKey(@, idx - t.dense_key_limit))]

RemoveSymbol(t, key) ==
  LET sparse == key < 0 \/ key >= t.dense_key_limit
  IN  IF sparse /\ key \notin DOMAIN t.key_map THEN t
      ELSE
        LET idx == IF sparse THEN t.key_map[key] ELSE key
            t0 == IF sparse THEN [t EXCEPT !.key_map = MapErase(@, key)] ELSE t
        IN  IF idx < 0 \/ idx >= Size(t) THEN t0
            ELSE
              LET rm == DenseRemoveSymbol(t.symbols, t.buckets, idx)
                  t1 == [t0 EXCEPT !.symbols = rm.symbols,
                                   !.buckets = rm.buckets,
                                   !.key_map = ShiftKeyMap(@, idx)]
                  t2 == IF key >= 0 /\ key < t.dense_key_limit
                        THEN RemoveDense(t1, key, Len(rm.symbols))
                        ELSE RemoveSparse(t1, idx)
              IN  [t2 EXCEPT !.available_key = IF key = @ - 1 THEN key ELSE @]

\* ---- MaybeRecomputeCheckSum
\* CheckSummer::Digest (fst/util.h): an opaque digest of the bytes it was
\* fed; modelled as the stream itself (no two streams share a digest).
Digest(stream) == stream

\* The label-agnostic stream: every symbol in storage order, each followed
\* by one NUL byte (the pair <<symbol, 0>>).
RECURSIVE CheckSumStream(_, _)
CheckSumStream(t, i) ==
  IF i >= Size(t) THEN <<>>
  ELSE <<[symbol |-> GetSymbol(t, i), nul |-> 0]>> \o CheckSumStream(t, i + 1)

\* The lines "<symbol>\t<i>" of the dense range.
RECURSIVE LabeledDenseStream(_, _)
LabeledDenseStream(t, i) ==
  IF i >= t.dense_key_limit THEN <<>>
  ELSE <<[symbol |-> GetSymbol(t, i), key |-> i]>> \o LabeledDenseStream(t, i + 1)

\* The slip of dropping the line "if (it->first < dense_key_limit_) continue;".
RECURSIVE LabeledSparseStreamSkipsNone(_, _)
LabeledSparseStreamSkipsNone(t, ks) ==
  IF ks = {} THEN <<>>
  ELSE LET k == CHOOSE x \in ks : \A y \in ks : x <= y
       IN  <<[symbol |-> GetSymbol(t, t.key_map[k]), key |-> k]>>
             \o LabeledSparseStreamSkipsNone(t, ks \ {k})

\* key_map_ is iterated in ascending key order; entries with a key below
\* dense_key_limit_ are skipped.
RECURSIVE LabeledSparseStream(_, _)
LabeledSparseStream(t, ks) ==
  IF ks = {} THEN <<>>
  ELSE LET k == CHOOSE x \in ks : \A y \in ks : x <= y
           line == IF k < t.dense_key_limit THEN <<>>
                   ELSE <<[symbol |-> GetSymbol(t, t.key_map[k]), key |-> k]>>
       IN  line \o LabeledSparseStream(t, ks \ {k})

CheckSum(t) == Digest(CheckSumStream(t, 0))
LabeledCheckSum(t) ==
  Digest(LabeledDenseStream(t, 0) \o LabeledSparseStream(t, DOMAIN t.key_map))

\* One caller at a time: both locks are free on entry and on return.
MaybeRecomputeCheckSum(t) ==
  IF t.check_sum_finalized THEN t
  ELSE [t EXCEPT !.check_sum_string = CheckSum(t),
                 !.labeled_check_sum_string = LabeledCheckSum(t),
                 !.check_sum_finalized = TRUE]

\* ---- Write and Read
\* SymbolTableImpl(name) (fst/symbol-table.h): an empty table called nm.
NewSymbolTableImpl(nm) ==
  [symbols |-> <<>>, buckets |-> EmptyIndex, key_map |-> EmptyMap,
   idx_key |-> <<>>, dense_key_limit |-> 0, available_key |-> 0,
   check_sum_finalized |-> FALSE, check_sum_string |-> <<>>,
   labeled_check_sum_string |-> <<>>, name |-> nm]

\* What a failed load returns instead of a table.
NullPtr == [null |-> TRUE]
IsNull(impl) == "null" \in DOMAIN impl

\* A binary stream is the sequence of the values WriteType put into it; a
\* ReadType past its end sets the stream's fail bit.
\* for (i = 0; i < dense_key_limit_; ++i) WriteType(symbol i); WriteType(i);
RECURSIVE WriteDense(_, _)
WriteDense(t, i) ==
  IF i >= t.dense_key_limit THEN <<>>
  ELSE <<GetSymbol(t, i), i>> \o WriteDense(t, i + 1)

\* for (const auto &p : key_map_): key_map_ in ascending key order.
RECURSIVE WriteSparse(_, _)
WriteSparse(t, ks) ==
  IF ks = {} THEN <<>>
  ELSE LET k == CHOOSE x \in ks : \A y \in ks : x <= y
       IN  <<GetSymbol(t, t.key_map[k]), k>> \o WriteSparse(t, ks \ {k})

Write(t) ==
  <<kSymbolTableMagicNumber, t.name, t.available_key, Size(t)>>
    \o WriteDense(t, 0) \o WriteSparse(t, DOMAIN t.key_map)

\* The loop of Read: record i is the symbol and the key that follow the four
\* header values and i earlier records.
RECURSIVE ReadRecords(_, _, _, _)
ReadRecords(impl, strm, i, size) ==
  IF i >= size THEN impl
  ELSE IF Len(strm) < 4 + 2 * (i + 1) THEN NullPtr
  ELSE ReadRecords(AddSymbol(impl, strm[4 + 2 * i + 1], strm[4 + 2 * i + 2]).t,
                   strm, i + 1, size)

\* The magic number is read and not compared to anything.
Read(strm) ==
  IF Len(strm) < 1 THEN NullPtr
  ELSE IF Len(strm) < 4 THEN NullPtr
  ELSE ReadRecords([NewSymbolTableImpl(strm[2]) EXCEPT !.available_key = strm[3]],
                   strm, 0, strm[4])

\* ---- WriteText and ReadText
\* A string is the sequence of its characters.  LongRun stands for kLineLen
\* letters in a row: it counts as kLineLen characters, none of them a
\* separator, a sign or a digit.
LongRun == "bbb...b"
Width(c) == IF c = LongRun THEN kLineLen ELSE 1
RECURSIVE StrLen(_)
StrLen(str) == IF str = <<>> THEN 0 ELSE Width(Head(str)) + StrLen(Tail(str))

DigitChars == <<"0", "1", "2", "3", "4", "5", "6", "7", "8", "9">>
IsDigit(c) == c \in Range(DigitChars)
DigitValue(c) == (CHOOSE i \in 1..10 : DigitChars[i] = c) - 1

\* operator<< of an int64.
RECURSIVE FormatDigits(_)
FormatDigits(n) ==
  IF n < 10 THEN <<DigitChars[n + 1]>>
  ELSE FormatDigits(n \div 10) \o <<DigitChars[(n % 10) + 1]>>
FormatInt(n) == IF n < 0 THEN <<"-">> \o FormatDigits(-n) ELSE FormatDigits(n)

\* The digits of value from position i (0-based) on: where they end, and
\* their number.
RECURSIVE ParseDigits(_, _, _)
ParseDigits(value, i, n) ==
  IF i < Len(value) /\ IsDigit(value[i + 1])
  THEN ParseDigits(value, i + 1, 10 * n + DigitValue(value[i + 1]))
  ELSE [p |-> i, n |-> n]

\* strtoll(value, &p, 10): an optional sign and the digits after it; p is
\* the number of characters converted, 0 if there is no digit.  (No column
\* starts with white space, and no number leaves the int64 range.)
strtoll(value) ==
  LET sign == IF value # <<>> /\ value[1] \in {"-", "+"} THEN 1 ELSE 0
      d == ParseDigits(value, sign, 0)
  IN  IF d.p = sign THEN [key |-> 0, p |-> 0]
      ELSE [key |-> IF value[1] = "-" THEN -d.n ELSE d.n, p |-> d.p]

\* The characters of the model's symbols: "" for EmptyString, kLineLen
\* letters for the last symbol, and "s<n>" for the others.
LongSymbol == NumSymbols - 1
StrOf(symbol) ==
  IF symbol = EmptyString THEN <<>>
  ELSE IF symbol = LongSymbol THEN <<LongRun>>
  ELSE <<"s">> \o FormatInt(symbol)
SymbolOf(str) == CHOOSE symbol \in Symbols : StrOf(symbol) = str

\* FLAGS_fst_field_separator, and SymbolTableTextOptions.
DefaultSeparator == <<"\t", " ">>
SymbolTableTextOptions(allow_negative_labels) ==
  [allow_negative_labels |-> allow_negative_labels,
   fst_field_separator |-> DefaultSeparator]

\* SplitString(line, separator, &col, true) (fst/util.h): the maximal runs
\* of characters that are no separators.
RECURSIVE SplitString(_, _, _, _)
SplitString(line, separator, cur, col) ==
  LET col1 == IF cur = <<>> THEN col ELSE Append(col, cur)
  IN  IF line = <<>> THEN col1
      ELSE IF Head(line) \in separator
      THEN SplitString(Tail(line), separator, <<>>, col1)
      ELSE SplitString(Tail(line), separator, Append(cur, Head(line)), col)

\* strm.getline(line, kLineLen): the characters up to the next newline,
\* which is consumed; it fails at the end of the stream, and when kLineLen - 1
\* characters are stored and the next one is no newline.
RECURSIVE UpToNewline(_)
UpToNewline(str) ==
  IF str = <<>> \/ Head(str) = "\n" THEN <<>>
  ELSE <<Head(str)>> \o UpToNewline(Tail(str))
getline(str) ==
  LET line == UpToNewline(str)
  IN  [line |-> line,
       rest |-> SubSeq(str, Len(line) + 2, Len(str)),
       fail |-> str = <<>> \/ StrLen(line) >= kLineLen]

\* The loop of ReadText.
RECURSIVE ReadTextLines(_, _, _)
ReadTextLines(impl, str, opts) ==
  LET got == getline(str)
      col == SplitString(got.line, Range(opts.fst_field_separator) \cup {"\n"},
                         <<>>, <<>>)
      value == strtoll(col[2])
  IN  IF got.fail THEN impl
      ELSE IF col = <<>> THEN ReadTextLines(impl, got.rest, opts)
      ELSE IF Len(col) # 2 THEN NullPtr
      ELSE IF \/ value.p < Len(col[2])
              \/ (~opts.allow_negative_labels /\ value.key < 0)
              \/ value.key = kNoSymbol
      THEN NullPtr
      ELSE ReadTextLines(AddSymbol(impl, SymbolOf(col[1]), value.key).t,
                         got.rest, opts)

ReadText(str, source, opts) ==
  ReadTextLines(NewSymbolTableImpl(source), str, opts)

\* SymbolTableIterator (fst/symbol-table.h): the positions in ascending order
\* of their keys.
RECURSIVE IterationOrder(_, _)
IterationOrder(t, todo) ==
  IF todo = {} THEN <<>>
  ELSE LET pos == CHOOSE x \in todo : \A y \in todo :
                    \/ GetNthKey(t, x) < GetNthKey(t, y)
                    \/ (GetNthKey(t, x) = GetNthKey(t, y) /\ x <= y)
       IN  <<pos>> \o IterationOrder(t, todo \ {pos})

\* line << iter.Symbol() << opts.fst_field_separator[0] << iter.Value() << '\n'
RECURSIVE WriteTextLines(_, _, _)
WriteTextLines(t, order, opts) ==
  IF order = <<>> THEN <<>>
  ELSE StrOf(GetSymbol(t, Head(order))) \o <<opts.fst_field_separator[1]>>
         \o FormatInt(GetNthKey(t, Head(order))) \o <<"\n">>
         \o WriteTextLines(t, Tail(order), opts)

\* What WriteText leaves in the stream; it writes nothing, and returns false,
\* when there is no separator.
WriteText(t, opts) ==
  IF opts.fst_field_separator = <<>> THEN <<>>
  ELSE WriteTextLines(t, IterationOrder(t, 0..(Size(t) - 1)), opts)

\* ---- AddTable
\* The symbols SymbolTableIterator yields, in its order.
IteratedSymbols(table) ==
  LET order == IterationOrder(table, 0..(Size(table) - 1))
  IN  [i \in 1..Size(table) |-> GetSymbol(table, order[i])]

\* AddSymbol(symbol) for each of the symbols, and the table before and after
\* each call.
RECURSIVE AddSymbols(_, _)
AddSymbols(ts, added) ==
  IF added = <<>> THEN ts
  ELSE AddSymbols(Append(ts, AddSymbolNoKey(ts[Len(ts)], Head(added)).t),
                  Tail(added))

\* The slip of passing iter.Value() along: AddSymbol(iter.Symbol(), iter.Value()).
RECURSIVE AddSymbolsWithValues(_, _, _)
AddSymbolsWithValues(t, table, order) ==
  IF order = <<>> THEN t
  ELSE AddSymbolsWithValues(AddSymbol(t, GetSymbol(table, Head(order)),
                                      GetNthKey(table, Head(order))).t,
                            table, Tail(order))

AddTableKeepsKeys(t, table) ==
  AddSymbolsWithValues(t, table, IterationOrder(table, 0..(Size(table) - 1)))

\* for (iter(table); !iter.Done(); iter.Next()) AddSymbol(iter.Symbol());
AddTable(t, table) ==
  LET ts == AddSymbols(<<t>>, IteratedSymbols(table)) IN ts[Len(ts)]

\* ---- CompatSymbols
\* SymbolTable::LabeledCheckSum() (fst/symbol-table.h).
LabeledCheckSumOf(t) == MaybeRecomputeCheckSum(t).labeled_check_sum_string

\* syms1 and syms2 are tables or NullPtr; the flag is FLAGS_fst_compat_symbols.
CompatSymbols(FLAGS_fst_compat_symbols, syms1, syms2) ==
  IF ~FLAGS_fst_compat_symbols THEN TRUE
  ELSE IF /\ ~IsNull(syms1)
          /\ ~IsNull(syms2)
          /\ LabeledCheckSumOf(syms1) # LabeledCheckSumOf(syms2)
  THEN FALSE
  ELSE TRUE

\* ------------------------------------------------------------ the system
\* The name a table has when its creator gives none, and another name.
Unnamed == "<unspecified>"
Names == {Unnamed, "syms"}

Threads == 1..NumThreads
\* check_sum_mutex_ (fst/lock.h): held shared by the threads in readers, or
\* exclusively by writer (0: by none); the threads blocked in a lock call
\* wait in arrival order, and the lock is granted in that order.
Unlocked == [readers |-> {}, writer |-> 0, waiting |-> <<>>]

NoneInserted == kNoSymbol - 2
NotLoaded == [done |-> FALSE]
NotInOrder == [ok |-> FALSE, added |-> <<>>]
\* Every key a call can carry: AddSymbol(symbol) assigns keys up to MaxKey + 1.
KeyRange == (kNoSymbol - 1)..(MaxKey + 1)

SetTable(t) ==
  /\ symbols' = t.symbols
  /\ buckets' = t.buckets
  /\ key_map' = t.key_map
  /\ idx_key' = t.idx_key
  /\ dense_key_limit' = t.dense_key_limit
  /\ available_key' = t.available_key
  /\ check_sum_finalized' = t.check_sum_finalized
  /\ check_sum_string' = t.check_sum_string
  /\ labeled_check_sum_string' = t.labeled_check_sum_string
  /\ name' = t.name

\* SymbolTableImpl's constructor (fst/symbol-table.h): an empty table.
Init ==
  /\ symbols = <<>>
  /\ buckets = EmptyIndex
  /\ key_map = EmptyMap
  /\ idx_key = <<>>
  /\ dense_key_limit = 0
  /\ available_key = 0
  /\ check_sum_finalized = FALSE
  /\ check_sum_string = <<>>
  /\ labeled_check_sum_string = <<>>
  /\ in_order = [ok |-> TRUE, added |-> <<>>]
  /\ max_inserted = NoneInserted
  /\ max_since_lowered = NoneInserted
  /\ name = Unnamed
  /\ pc = [th \in Threads |-> "idle"]
  /\ check_sum_mutex = Unlocked
  /\ recomputations = 0
  /\ fatal = FALSE
  /\ text_strm = <<>>
  /\ typed = <<>>
  /\ loaded = NotLoaded

\* A call changes the table alone, or the table and one history variable.
\* (r ranges over a one-element set, so that the call is evaluated once.)
\* A caller's AddSymbol(symbol, key).
DoAddSymbol ==
  \E symbol \in Symbols, key \in Keys :
    \E r \in {AddSymbol(Table, symbol, key)} :
      /\ SetTable(r.t)
      /\ in_order' = IF in_order.ok /\ key = Len(in_order.added)
                         /\ symbol \notin Range(in_order.added)
                      THEN [ok |-> TRUE, added |-> Append(in_order.added, symbol)]
                      ELSE NotInOrder
      /\ UNCHANGED <<max_inserted, max_since_lowered>>
      /\ UNCHANGED xvars

\* A caller's AddSymbol(symbol); the model stops assigning keys at MaxKey.
DoAddSymbolNoKey ==
  /\ available_key <= MaxKey
  /\ \E symbol \in Symbols :
       \E r \in {AddSymbolNoKey(Table, symbol)} :
         /\ SetTable(r.t)
         /\ in_order' = NotInOrder
         /\ UNCHANGED <<max_inserted, max_since_lowered>>
         /\ UNCHANGED xvars

\* A caller's RemoveSymbol(key).
DoRemoveSymbol ==
  \E key \in Keys :
    \E t \in {RemoveSymbol(Table, key)} :
      /\ SetTable(t)
      /\ in_order' = NotInOrder
      /\ UNCHANGED <<max_inserted, max_since_lowered>>
      /\ UNCHANGED xvars

\* The writer alone: no checksum is requested.
Next == DoAddSymbol \/ DoAddSymbolNoKey \/ DoRemoveSymbol

Spec == Init /\ [][Next]_vars

\* ---- the same calls, recording the keys inserted
KeysAddSymbol ==
  \E symbol \in Symbols, key \in Keys :
    \E r \in {AddSymbol(Table, symbol, key)} :
      /\ SetTable(r.t)
      /\ max_inserted' = IF r.inserted THEN Max(max_inserted, key)
                         ELSE max_inserted
      /\ max_since_lowered' = IF r.inserted THEN Max(max_since_lowered, key)
                              ELSE max_since_lowered
      /\ UNCHANGED in_order
      /\ UNCHANGED xvars

KeysAddSymbolNoKey ==
  /\ available_key <= MaxKey
  /\ \E symbol \in Symbols :
       \E r \in {AddSymbolNoKey(Table, symbol)} :
         /\ SetTable(r.t)
         /\ max_inserted' = IF r.inserted THEN Max(max_inserted, available_key)
                            ELSE max_inserted
         /\ max_since_lowered' =
              IF r.inserted THEN Max(max_since_lowered, available_key)
              ELSE max_since_lowered
         /\ UNCHANGED in_order
         /\ UNCHANGED xvars

KeysRemoveSymbol ==
  \E key \in Keys :
    \E t \in {RemoveSymbol(Table, key)} :
      /\ SetTable(t)
      /\ max_since_lowered' = IF t.available_key < available_key
                              THEN NoneInserted ELSE max_since_lowered
      /\ UNCHANGED <<in_order, max_inserted>>
      /\ UNCHANGED xvars

NextKeys == KeysAddSymbol \/ KeysAddSymbolNoKey \/ KeysRemoveSymbol

SpecKeys == Init /\ [][NextKeys]_vars

\* ---- callers that never give a new symbol a key another symbol holds
\* The keys the symbols of the table hold: i for position i of the dense
\* range, idx_key_'s entry for a later position.
KeysHeld ==
  (0..(dense_key_limit - 1)) \cup Range(idx_key)

\* Whether a caller of this kind calls AddSymbol(symbol, key): the symbol is
\* stored, or the key is not kNoSymbol and no symbol holds it.
KeyIsFree(symbol, key) ==
  \/ symbol \in Range(symbols)
  \/ (key # kNoSymbol /\ key \notin KeysHeld)

FreeAddSymbol ==
  \E symbol \in Symbols, key \in Keys :
    /\ KeyIsFree(symbol, key)
    /\ \E r \in {AddSymbol(Table, symbol, key)} :
         /\ SetTable(r.t)
         /\ UNCHANGED <<hvars, xvars>>

FreeAddSymbolNoKey ==
  /\ available_key <= MaxKey
  /\ \E symbol \in Symbols :
       /\ KeyIsFree(symbol, available_key)
       /\ \E r \in {AddSymbolNoKey(Table, symbol)} :
            /\ SetTable(r.t)
            /\ UNCHANGED <<hvars, xvars>>

FreeRemoveSymbol ==
  \E key \in Keys :
    \E t \in {RemoveSymbol(Table, key)} :
      /\ SetTable(t)
      /\ UNCHANGED <<hvars, xvars>>

NextFree == FreeAddSymbol \/ FreeAddSymbolNoKey \/ FreeRemoveSymbol

SpecFree == Init /\ [][NextFree]_vars

\* ---- callers that give new symbols keys other symbols hold
\* The keys these callers pass: one negative key and the keys below MaxKey,
\* few enough that symbols soon share them.
ReusedKeys == {kNoSymbol - 1} \cup (0..(MaxKey - 1))

ReuseAddSymbol ==
  \E symbol \in Symbols, key \in ReusedKeys :
    \E r \in {AddSymbol(Table, symbol, key)} :
      /\ SetTable(r.t)
      /\ UNCHANGED <<hvars, xvars>>

ReuseRemoveSymbol ==
  \E key \in ReusedKeys :
    \E t \in {RemoveSymbol(Table, key)} :
      /\ SetTable(t)
      /\ UNCHANGED <<hvars, xvars>>

NextReuse == ReuseAddSymbol \/ ReuseRemoveSymbol

SpecReuse == Init /\ [][NextReuse]_vars

\* ---- callers that let the table assign the keys, and request checksums
\* between their calls
SumAddSymbolNoKey ==
  /\ available_key <= MaxKey
  /\ \E symbol \in Symbols :
       \E r \in {AddSymbolNoKey(Table, symbol)} :
         /\ SetTable(r.t)
         /\ UNCHANGED <<in_order, max_inserted, max_since_lowered>>
         /\ UNCHANGED xvars

SumRemoveSymbol ==
  \E key \in Keys :
    \E t \in {RemoveSymbol(Table, key)} :
      /\ SetTable(t)
      /\ UNCHANGED <<in_order, max_inserted, max_since_lowered>>
      /\ UNCHANGED xvars

\* A caller's CheckSum() or LabeledCheckSum().
SumCheckSum ==
  /\ SetTable(MaybeRecomputeCheckSum(Table))
  /\ UNCHANGED <<in_order, max_inserted, max_since_lowered>>
  /\ UNCHANGED xvars

NextCheckSum == SumAddSymbolNoKey \/ SumRemoveSymbol \/ SumCheckSum

SpecCheckSum == Init /\ [][NextCheckSum]_vars

\* ---- threads that request checksums of a table no writer is mutating
\* What MaybeRecomputeCheckSum leaves alone.
content == <<symbols, buckets, key_map, idx_key, dense_key_limit, available_key,
             name>>

\* A caller's AddSymbol(symbol, key) calls, in order.
RECURSIVE Replay(_, _)
Replay(t, calls) ==
  IF calls = <<>> THEN t
  ELSE Replay(AddSymbol(t, Head(calls)[1], Head(calls)[2]).t, Tail(calls))

Calls == Symbols \X {kNoSymbol - 1, 0, 1}
\* The tables two calls build.
BuiltTables ==
  {Replay(NewSymbolTableImpl(Unnamed), calls) :
     calls \in {<<>>} \cup {<<c>> : c \in Calls}
                \cup {<<c, d>> : c \in Calls, d \in Calls}}

IsTable(t) ==
  /\ symbols = t.symbols
  /\ buckets = t.buckets
  /\ key_map = t.key_map
  /\ idx_key = t.idx_key
  /\ dense_key_limit = t.dense_key_limit
  /\ available_key = t.available_key
  /\ check_sum_finalized = t.check_sum_finalized
  /\ check_sum_string = t.check_sum_string
  /\ labeled_check_sum_string = t.labeled_check_sum_string
  /\ name = t.name

\* Some table, its checksums not computed since its last AddSymbol; every
\* thread outside MaybeRecomputeCheckSum.
InitLock ==
  /\ \E t \in BuiltTables : IsTable(t)
  /\ in_order = NotInOrder
  /\ max_inserted = NoneInserted
  /\ max_since_lowered = NoneInserted
  /\ pc = [th \in Threads |-> "idle"]
  /\ check_sum_mutex = Unlocked
  /\ recomputations = 0
  /\ fatal = FALSE
  /\ text_strm = <<>>
  /\ typed = <<>>
  /\ loaded = NotLoaded

\* Mutex (fst/lock.h).
Enqueue(mu, th) == [mu EXCEPT !.waiting = Append(@, th)]
IsNext(mu, th) == mu.waiting # <<>> /\ Head(mu.waiting) = th
CanReaderLock(mu, th) == IsNext(mu, th) /\ mu.writer = 0
CanLock(mu, th) == IsNext(mu, th) /\ mu.writer = 0 /\ mu.readers = {}
GrantShared(mu, th) ==
  [mu EXCEPT !.waiting = Tail(@), !.readers = @ \cup {th}]
GrantExclusive(mu, th) == [mu EXCEPT !.waiting = Tail(@), !.writer = th]
\* A slip: a thread keeps its shared lock while it asks for the exclusive one.
ReaderUnlockKeepsShared(mu, th) == mu
ReaderUnlock(mu, th) == [mu EXCEPT !.readers = @ \ {th}]
Unlock(mu, th) == [mu EXCEPT !.writer = 0]

Goto(th, label) == pc' = [pc EXCEPT ![th] = label]
\* A step that changes neither the table nor the mutex.
ThreadLocal ==
  UNCHANGED <<tvars, hvars, check_sum_mutex, recomputations, fatal, text>>
\* A step on the mutex alone.
MutexOnly == UNCHANGED <<tvars, hvars, recomputations, fatal, text>>

\* A thread calls CheckSum() or LabeledCheckSum(): it enters
\* MaybeRecomputeCheckSum and blocks in ReaderMutexLock's constructor.
CallCheckSum(th) ==
  /\ pc[th] \in {"idle", "returned"}
  /\ check_sum_mutex' = Enqueue(check_sum_mutex, th)
  /\ Goto(th, "reader_lock")
  /\ MutexOnly

\* ReaderMutexLock check_sum_lock(&check_sum_mutex_);
AcquireShared(th) ==
  /\ pc[th] = "reader_lock"
  /\ CanReaderLock(check_sum_mutex, th)
  /\ check_sum_mutex' = GrantShared(check_sum_mutex, th)
  /\ Goto(th, "reader_test")
  /\ MutexOnly

\* if (check_sum_finalized_) return;  (under the shared lock)
ReaderTest(th) ==
  /\ pc[th] = "reader_test"
  /\ Goto(th, IF check_sum_finalized THEN "reader_return" ELSE "reader_unlock")
  /\ ThreadLocal

\* The return inside the block: the shared lock is released on the way out.
ReaderReturn(th) ==
  /\ pc[th] = "reader_return"
  /\ check_sum_mutex' = ReaderUnlock(check_sum_mutex, th)
  /\ Goto(th, "returned")
  /\ MutexOnly

\* The end of the block releases the shared lock; the thread then blocks in
\* MutexLock's constructor.
ReleaseShared(th) ==
  /\ pc[th] = "reader_unlock"
  /\ check_sum_mutex' = Enqueue(ReaderUnlock(check_sum_mutex, th), th)
  /\ Goto(th, "lock")
  /\ MutexOnly

\* MutexLock check_sum_lock(&check_sum_mutex_);
AcquireExclusive(th) ==
  /\ pc[th] = "lock"
  /\ CanLock(check_sum_mutex, th)
  /\ check_sum_mutex' = GrantExclusive(check_sum_mutex, th)
  /\ Goto(th, "test")
  /\ MutexOnly

\* A slip: the flag is not tested again under the exclusive lock.
AfterRecheckAlwaysComputes(finalized) == "check_sum"

\* Another thread might have done it already.
AfterRecheck(finalized) == IF finalized THEN "return" ELSE "check_sum"

\* if (check_sum_finalized_) return;  (under the exclusive lock)
Recheck(th) ==
  /\ pc[th] = "test"
  /\ Goto(th, AfterRecheck(check_sum_finalized))
  /\ ThreadLocal

\* check_sum_string_ = check_sum.Digest();
ComputeCheckSum(th) ==
  /\ pc[th] = "check_sum"
  /\ check_sum_string' = CheckSum(Table)
  /\ recomputations' = recomputations + 1
  /\ Goto(th, "labeled_check_sum")
  /\ UNCHANGED <<content, check_sum_finalized, labeled_check_sum_string,
                 hvars, check_sum_mutex, fatal, text>>

\* labeled_check_sum_string_ = labeled_check_sum.Digest();
ComputeLabeledCheckSum(th) ==
  /\ pc[th] = "labeled_check_sum"
  /\ labeled_check_sum_string' = LabeledCheckSum(Table)
  /\ Goto(th, "finalize")
  /\ UNCHANGED <<content, check_sum_finalized, check_sum_string,
                 hvars, check_sum_mutex, recomputations, fatal, text>>

\* check_sum_finalized_ = true;
Finalize(th) ==
  /\ pc[th] = "finalize"
  /\ check_sum_finalized' = TRUE
  /\ Goto(th, "return")
  /\ UNCHANGED <<content, check_sum_string, labeled_check_sum_string,
                 hvars, check_sum_mutex, recomputations, fatal, text>>

\* Either return under the exclusive lock releases it.
ReleaseExclusive(th) ==
  /\ pc[th] = "return"
  /\ check_sum_mutex' = Unlock(check_sum_mutex, th)
  /\ Goto(th, "returned")
  /\ MutexOnly

\* The steps of a thread inside MaybeRecomputeCheckSum.
Proceed(th) ==
  \/ AcquireShared(th)
  \/ ReaderTest(th)
  \/ ReaderReturn(th)
  \/ ReleaseShared(th)
  \/ AcquireExclusive(th)
  \/ Recheck(th)
  \/ ComputeCheckSum(th)
  \/ ComputeLabeledCheckSum(th)
  \/ Finalize(th)
  \/ ReleaseExclusive(th)

NextLock == \E th \in Threads : CallCheckSum(th) \/ Proceed(th)

SpecLock == InitLock /\ [][NextLock]_vars

\* No thread stops inside MaybeRecomputeCheckSum, and the mutex grants the
\* lock in arrival order.
SpecLockFair == SpecLock /\ \A th \in Threads : WF_vars(Proceed(th))

\* ---- a writer that adds symbols while threads request checksums
\* The thread that calls AddSymbol; it takes no lock.
Writer == 0

\* The empty table; the writer and every other thread outside any call.
InitRace ==
  /\ IsTable(NewSymbolTableImpl(Unnamed))
  /\ in_order = NotInOrder
  /\ max_inserted = NoneInserted
  /\ max_since_lowered = NoneInserted
  /\ pc = [th \in Threads \cup {Writer} |-> "idle"]
  /\ check_sum_mutex = Unlocked
  /\ recomputations = 0
  /\ fatal = FALSE
  /\ text_strm = <<>>
  /\ typed = <<>>
  /\ loaded = NotLoaded

\* AddSymbol(symbol, key) of a new symbol with the next key or a negative
\* one, up to and including the update of available_key_:
\* check_sum_finalized_ is not yet written.
WriterAddSymbol ==
  /\ pc[Writer] = "idle"
  /\ \E symbol \in Symbols, key \in {kNoSymbol - 1, available_key} :
       \E r \in {AddSymbol(Table, symbol, key)} :
         /\ r.inserted
         /\ symbols' = r.t.symbols
         /\ buckets' = r.t.buckets
         /\ key_map' = r.t.key_map
         /\ idx_key' = r.t.idx_key
         /\ dense_key_limit' = r.t.dense_key_limit
         /\ available_key' = r.t.available_key
  /\ Goto(Writer, "invalidate")
  /\ UNCHANGED <<check_sum_finalized, check_sum_string,
                 labeled_check_sum_string, name, hvars, check_sum_mutex,
                 recomputations, fatal, text>>

\* check_sum_finalized_ = false;  (no lock is held)
WriterInvalidate ==
  /\ pc[Writer] = "invalidate"
  /\ check_sum_finalized' = FALSE
  /\ Goto(Writer, "idle")
  /\ UNCHANGED <<content, check_sum_string, labeled_check_sum_string,
                 hvars, check_sum_mutex, recomputations, fatal, text>>

NextRace ==
  \/ WriterAddSymbol
  \/ WriterInvalidate
  \/ \E th \in Threads : CallCheckSum(th) \/ Proceed(th)

SpecRace == InitRace /\ [][NextRace]_vars

\* ---- callers that merge tables into a table they also add to and remove
\* from
\* The tables merged: empty, of one symbol, and of two symbols of which the
\* second has the smaller key.
SourceTables ==
  {Replay(NewSymbolTableImpl(Unnamed), calls) :
     calls \in {<<>>} \cup {<<<<s1, 1>>>> : s1 \in Symbols}
                \cup {<<<<s1, 1>>, <<s2, kNoSymbol - 1>>>> :
                        s1 \in Symbols, s2 \in Symbols}}

MergeAddSymbol ==
  \E symbol \in Symbols, key \in {kNoSymbol - 1, MaxKey} :
    \E r \in {AddSymbol(Table, symbol, key)} :
      /\ SetTable(r.t)
      /\ UNCHANGED <<hvars, xvars>>

MergeAddSymbolNoKey ==
  /\ available_key <= MaxKey
  /\ \E symbol \in Symbols :
       \E r \in {AddSymbolNoKey(Table, symbol)} :
         /\ SetTable(r.t)
         /\ UNCHANGED <<hvars, xvars>>

MergeRemoveSymbol ==
  \E key \in Keys :
    \E t \in {RemoveSymbol(Table, key)} :
      /\ SetTable(t)
      /\ UNCHANGED <<hvars, xvars>>

\* A caller's AddTable(table); the model stops assigning keys at MaxKey.
MergeAddTable ==
  \E table \in SourceTables :
    \E t \in {AddTable(Table, table)} :
      /\ t.available_key <= MaxKey + 1
      /\ SetTable(t)
      /\ UNCHANGED <<hvars, xvars>>

NextMerge ==
  \/ MergeAddSymbol
  \/ MergeAddSymbolNoKey
  \/ MergeRemoveSymbol
  \/ MergeAddTable

SpecMerge == Init /\ [][NextMerge]_vars

\* ---- callers that always let the table assign the keys
\* The largest key the table assigns in the model: removals below
\* available_key_ let it rise past the number of symbols.
MaxAssignedKey == MaxKey + NumSymbols

KeylessAddSymbol ==
  /\ available_key <= MaxAssignedKey
  /\ \E symbol \in Symbols :
       \E r \in {AddSymbolNoKey(Table, symbol)} :
         /\ SetTable(r.t)
         /\ UNCHANGED <<hvars, xvars>>

KeylessRemoveSymbol ==
  \E key \in (kNoSymbol - 1)..MaxAssignedKey :
    \E t \in {RemoveSymbol(Table, key)} :
      /\ SetTable(t)
      /\ UNCHANGED <<hvars, xvars>>

\* A caller's AddTable(table).
KeylessAddTable ==
  \E table \in SourceTables :
    \E t \in {AddTable(Table, table)} :
      /\ t.available_key <= MaxAssignedKey + 1
      /\ SetTable(t)
      /\ UNCHANGED <<hvars, xvars>>

NextKeyless == KeylessAddSymbol \/ KeylessRemoveSymbol \/ KeylessAddTable

SpecKeyless == Init /\ [][NextKeyless]_vars

\* ---- a DenseSymbolMap alone, into which a caller interns strings
\* The strings interned; they collide in buckets_ (see StrHash).
IndexSymbols == 0..(NumIndexSymbols - 1)

\* The strings the caller passes next: any string at first, then a string
\* already interned, or the next one up or down from the last, always in the
\* same direction, wrapping around.
NextIndexSymbols ==
  LET n == Len(symbols)
      last == symbols[n]
      up == (last + 1) % NumIndexSymbols
      down == (last + NumIndexSymbols - 1) % NumIndexSymbols
  IN  IF n = 0 THEN IndexSymbols
      ELSE IF n = 1 THEN {last, up, down}
      ELSE Range(symbols)
             \cup (IF symbols[n - 1] = down THEN {up} ELSE {down})

\* symbols_.InsertOrFind(key); the members of the table around the map are
\* not involved.
IndexInsertOrFind ==
  \E key \in NextIndexSymbols :
    LET r == InsertOrFind(symbols, buckets, key)
    IN  /\ symbols' = r.symbols
        /\ buckets' = r.buckets
        /\ UNCHANGED <<key_map, idx_key, dense_key_limit, available_key,
                       check_sum_finalized, check_sum_string,
                       labeled_check_sum_string, name>>
        /\ UNCHANGED <<hvars, xvars>>

NextIndex == IndexInsertOrFind

SpecIndex == Init /\ [][NextIndex]_vars

\* ---- a DenseSymbolMap alone, with strings interned and removed in turn
\* The strings the caller passes next: any string at first, then the first
\* or the last string stored, or the one after the last, so that the stored
\* strings ascend.
NextAscendingSymbols ==
  IF symbols = <<>> THEN IndexSymbols
  ELSE {symbols[1], symbols[Len(symbols)]}
         \cup ({symbols[Len(symbols)] + 1} \cap IndexSymbols)

\* Whether the stored strings are consecutive.
Consecutive == symbols = <<>> \/ symbols[Len(symbols)] - symbols[1] + 1 = Len(symbols)

\* The positions the caller removes: the first and the last, and any other
\* one while the stored strings are consecutive.
RemovedPositions ==
  IF Consecutive THEN 0..(Len(symbols) - 1)
  ELSE {0, Len(symbols) - 1}

\* symbols_.InsertOrFind(key)
AscendingInsertOrFind ==
  \E key \in NextAscendingSymbols :
    LET r == InsertOrFind(symbols, buckets, key)
    IN  /\ symbols' = r.symbols
        /\ buckets' = r.buckets
        /\ UNCHANGED <<key_map, idx_key, dense_key_limit, available_key,
                       check_sum_finalized, check_sum_string,
                       labeled_check_sum_string, name>>
        /\ UNCHANGED <<hvars, xvars>>

\* symbols_.RemoveSymbol(idx)
IndexRemoveSymbol ==
  \E idx \in RemovedPositions :
    LET r == DenseRemoveSymbol(symbols, buckets, idx)
    IN  /\ symbols' = r.symbols
        /\ buckets' = r.buckets
        /\ UNCHANGED <<key_map, idx_key, dense_key_limit, available_key,
                       check_sum_finalized, check_sum_string,
                       labeled_check_sum_string, name>>
        /\ UNCHANGED <<hvars, xvars>>

NextIndexRemove == AscendingInsertOrFind \/ IndexRemoveSymbol

SpecIndexRemove == Init /\ [][NextIndexRemove]_vars

\* ---- ConstSymbolTableImpl: a table that was built and is now immutable
\* LOG(FATAL) (fst/log.h) ends the process; the statement after it is never
\* reached.
LogFatal(t) == [t |-> t, fatal |-> TRUE]

ConstAddSymbol(t, symbol, key) == LogFatal(t)
\* A slip: the call goes to the mutable table's AddSymbol.
ConstAddSymbolNoKeyMutates(t, symbol) ==
  [t |-> AddSymbolNoKey(t, symbol).t, fatal |-> FALSE]
\* return AddSymbol(symbol, kNoSymbol);
ConstAddSymbolNoKey(t, symbol) == ConstAddSymbol(t, symbol, kNoSymbol)
ConstRemoveSymbol(t, key) == LogFatal(t)
ConstSetName(t, new_name) == LogFatal(t)
ConstAddTable(t, table) == LogFatal(t)

InitConst ==
  /\ \E t \in BuiltTables : IsTable(t)
  /\ in_order = NotInOrder
  /\ max_inserted = NoneInserted
  /\ max_since_lowered = NoneInserted
  /\ pc = [th \in Threads |-> "idle"]
  /\ check_sum_mutex = Unlocked
  /\ recomputations = 0
  /\ fatal = FALSE
  /\ text_strm = <<>>
  /\ typed = <<>>
  /\ loaded = NotLoaded

\* The outcome r of a call on the immutable table.
ConstOutcome(r) ==
  /\ SetTable(r.t)
  /\ fatal' = r.fatal
  /\ UNCHANGED <<hvars, pc, check_sum_mutex, recomputations, text>>

DoConstAddSymbol ==
  /\ ~fatal
  /\ \E symbol \in Symbols, key \in Keys :
       ConstOutcome(ConstAddSymbol(Table, symbol, key))

DoConstAddSymbolNoKey ==
  /\ ~fatal
  /\ \E symbol \in Symbols : ConstOutcome(ConstAddSymbolNoKey(Table, symbol))

DoConstRemoveSymbol ==
  /\ ~fatal
  /\ \E key \in Keys : ConstOutcome(ConstRemoveSymbol(Table, key))

DoConstSetName ==
  /\ ~fatal
  /\ \E new_name \in Names : ConstOutcome(ConstSetName(Table, new_name))

DoConstAddTable ==
  /\ ~fatal
  /\ \E table \in BuiltTables : ConstOutcome(ConstAddTable(Table, table))

NextConst ==
  \/ DoConstAddSymbol
  \/ DoConstAddSymbolNoKey
  \/ DoConstRemoveSymbol
  \/ DoConstSetName
  \/ DoConstAddTable

SpecConst == InitConst /\ [][NextConst]_vars

\* ---- a text file, typed line by line and then loaded
\* Second columns: integers, and texts that are none.
IntegerTexts ==
  {[text |-> <<"0">>, value |-> 0], [text |-> <<"1", "2">>, value |-> 12],
   [text |-> <<"-", "1">>, value |-> -1], [text |-> <<"-", "2">>, value |-> -2]}
OtherTexts == {<<"1", "x">>, <<"x">>}
\* A line's columns: none, one, two or three.
Columns ==
  {<<>>, <<StrOf(1)>>, <<StrOf(1), <<"0">>, <<"0">>>>}
    \cup {<<StrOf(symbol), v>> :
            symbol \in Symbols \ {EmptyString},
            v \in {e.text : e \in IntegerTexts} \cup OtherTexts}
\* A line: its columns, the separator typed between them, and what is typed
\* after the last.
TypedLines ==
  {[cols |-> c, sep |-> "\t", pad |-> <<>>] : c \in Columns}
    \cup {[cols |-> c, sep |-> " ", pad |-> <<" ">>] :
            c \in {<<>>, <<StrOf(1), <<"0">>>>}}

RECURSIVE Join(_, _)
Join(cols, sep) ==
  IF cols = <<>> THEN <<>>
  ELSE IF Len(cols) = 1 THEN Head(cols)
  ELSE Head(cols) \o <<sep>> \o Join(Tail(cols), sep)

\* Someone adds a line to the file.
TypeLine ==
  /\ ~loaded.done
  /\ Len(typed) < MaxLines
  /\ \E d \in TypedLines :
       /\ text_strm' = text_strm \o Join(d.cols, d.sep) \o d.pad \o <<"\n">>
       /\ typed' = Append(typed, d)
  /\ UNCHANGED <<tvars, hvars, pc, check_sum_mutex, recomputations, fatal,
                 loaded>>

\* SymbolTable::ReadText of the file, with negative labels allowed or not.
LoadText ==
  /\ ~loaded.done
  /\ \E allow_negative_labels \in BOOLEAN :
       \E impl \in {ReadText(text_strm, "syms",
                              SymbolTableTextOptions(allow_negative_labels))} :
         /\ loaded' = [done |-> TRUE, null |-> IsNull(impl),
                       allow_negative_labels |-> allow_negative_labels]
         /\ IF IsNull(impl) THEN UNCHANGED tvars ELSE SetTable(impl)
  /\ UNCHANGED <<hvars, pc, check_sum_mutex, recomputations, fatal,
                 text_strm, typed>>

NextText == TypeLine \/ LoadText

SpecText == Init /\ [][NextText]_vars

\* ================================================================ claims
Stored(t) == Range(t.symbols)
\* Find(key) resolves key to a stored symbol.
Present(t, key) == FindPos(t, key) # kNoSymbol
\* What C9 lists as the table's state.
SameTable(t1, t2) ==
  /\ t1.symbols = t2.symbols
  /\ t1.dense_key_limit = t2.dense_key_limit
  /\ t1.key_map = t2.key_map
  /\ t1.idx_key = t2.idx_key
  /\ t1.available_key = t2.available_key
  /\ t1.check_sum_finalized = t2.check_sum_finalized
  /\ t1.check_sum_string = t2.check_sum_string
  /\ t1.labeled_check_sum_string = t2.labeled_check_sum_string

\* C1: in every reachable table, for every present key k, RemoveSymbol(k)
\* makes Find(k) return "" and leaves Find(k2) as it was for every other
\* present key k2.
C1_RemoveThenFind ==
  \A k \in KeyRange :
    Present(Table, k) =>
      LET t2 == RemoveSymbol(Table, k)
      IN  /\ Find(t2, k) = EmptyString
          /\ \A k2 \in KeyRange \ {k} :
               Present(Table, k2) => Find(t2, k2) = Find(Table, k2)

\* C2: no two distinct stored symbols have the same key.
C2_KeysUnique ==
  \A s1 \in Stored(Table), s2 \in Stored(Table) :
    s1 # s2 => ReverseFind(Table, s1) # ReverseFind(Table, s2)

\* C3: every successful AddSymbol and every successful RemoveSymbol clears
\* check_sum_finalized_, and whenever it is set the two cached checksums are
\* those of the table's contents.
C3_CheckSumValidOrCleared ==
  /\ \A s \in Symbols, k \in KeyRange :
       AddSymbol(Table, s, k).inserted
         => ~AddSymbol(Table, s, k).t.check_sum_finalized
  /\ \A k \in KeyRange :
       Present(Table, k) => ~RemoveSymbol(Table, k).check_sum_finalized
  /\ check_sum_finalized =>
       /\ check_sum_string = CheckSum(Table)
       /\ labeled_check_sum_string = LabeledCheckSum(Table)

\* C4: every key of key_map_ is negative or at least dense_key_limit_.
C4_SparseKeysOutsideDense ==
  \A k \in DOMAIN key_map : k < 0 \/ k >= dense_key_limit

\* C5: idx_key_ has Size() - dense_key_limit_ entries, key_map_ as many, and
\* key_map_ sends the key idx_key_ records for a position back to it.
C5_SparseMapsConsistent ==
  /\ Len(idx_key) = Len(symbols) - dense_key_limit
  /\ Cardinality(DOMAIN key_map) = Len(idx_key)
  /\ \A p \in dense_key_limit..(Len(symbols) - 1) :
       /\ idx_key[p - dense_key_limit + 1] \in DOMAIN key_map
       /\ key_map[idx_key[p - dense_key_limit + 1]] = p

\* C6: dense_key_limit_ is between 0 and Size(); every key k below it is
\* answered by position k, whose symbol has key k; and AddSymbol raises it,
\* by one, exactly when it inserts a symbol whose key and whose new position
\* both equal it, while RemoveSymbol never raises it.
C6_DenseRange ==
  /\ 0 <= dense_key_limit
  /\ dense_key_limit <= Len(symbols)
  /\ \A k \in 0..(dense_key_limit - 1) :
       /\ FindPos(Table, k) = k
       /\ Find(Table, k) = symbols[k + 1]
       /\ ReverseFind(Table, symbols[k + 1]) = k
  /\ \A s \in Symbols, key \in KeyRange :
       LET r == AddSymbol(Table, s, key)
           grows == /\ r.inserted
                    /\ key = dense_key_limit
                    /\ Len(symbols) = dense_key_limit
       IN  r.t.dense_key_limit = IF grows THEN dense_key_limit + 1
                                 ELSE dense_key_limit
  /\ \A key \in KeyRange :
       RemoveSymbol(Table, key).dense_key_limit <= dense_key_limit

\* C6's case: the dense range has grown to two keys and stopped at a symbol
\* with a negative key.
C6_Witness ==
  /\ dense_key_limit >= 2
  /\ Len(symbols) > dense_key_limit
  /\ \E k \in DOMAIN key_map : k < 0

\* C7 as stated: available_key_ is at least the largest key ever inserted,
\* plus one.
C7_AboveEveryKeyInserted ==
  max_inserted # NoneInserted => available_key >= max_inserted + 1

\* C7, amended: available_key_ is never negative and is at least one more
\* than the largest key inserted since RemoveSymbol last lowered it; and
\* RemoveSymbol(key) changes it only when key = available_key_ - 1 is a
\* present key, and then to key.
C7_AboveKeysSinceLowered ==
  /\ available_key >= 0
  /\ max_since_lowered # NoneInserted => available_key >= max_since_lowered + 1
  /\ \A key \in KeyRange :
       RemoveSymbol(Table, key).available_key =
         IF key = available_key - 1 /\ Present(Table, key) THEN key
         ELSE available_key

\* C7's case: RemoveSymbol has lowered available_key_ below a key inserted
\* earlier, and a key has been inserted since.
C7_Witness ==
  /\ max_inserted >= available_key
  /\ max_since_lowered # NoneInserted
  /\ Len(symbols) >= 2

\* C8: after AddSymbol(s_k, k) for k = 0..n-1 on n distinct symbols and
\* nothing else, the dense range is [0, n), key_map_ is empty, available_key_
\* is n and Find(k) is s_k for every k < n, without a key_map_ lookup.
C8_InOrderIsDense ==
  in_order.ok =>
    LET n == Len(in_order.added)
    IN  /\ dense_key_limit = n
        /\ key_map = EmptyMap
        /\ idx_key = <<>>
        /\ available_key = n
        /\ Len(symbols) = n
        /\ \A k \in 0..(n - 1) :
             /\ ~FindUsesKeyMap(Table, k)
             /\ Find(Table, k) = in_order.added[k + 1]

\* C8's case: every symbol was added in order, the empty string among them.
C8_Witness ==
  /\ in_order.ok
  /\ Len(in_order.added) = NumSymbols
  /\ in_order.added[1] # EmptyString

\* C9 as stated: AddSymbol(symbol, key) of a stored symbol returns the key
\* the symbol has, whatever key is requested, and changes nothing.
C9_ReAddReturnsExistingKey ==
  \A s \in Stored(Table), key \in KeyRange :
    LET r == AddSymbol(Table, s, key)
    IN  /\ r.ret = ReverseFind(Table, s)
        /\ ~r.inserted
        /\ SameTable(r.t, Table)

\* C9, amended: so it is for every requested key but kNoSymbol; for
\* kNoSymbol AddSymbol returns kNoSymbol, and changes nothing either.
C9_ReAddReturnsExistingKeyUnlessNoSymbol ==
  \A s \in Stored(Table), key \in KeyRange :
    LET r == AddSymbol(Table, s, key)
    IN  /\ r.ret = IF key = kNoSymbol THEN kNoSymbol ELSE ReverseFind(Table, s)
        /\ ~r.inserted
        /\ SameTable(r.t, Table)

\* C9's case: a stored symbol with a sparse key that differs from the keys
\* requested, in a table whose checksums are cached.
C9_Witness ==
  /\ check_sum_finalized
  /\ Len(symbols) > dense_key_limit
  /\ \E s \in Stored(Table) : ReverseFind(Table, s) > 1

\* C10: RemoveSymbol(key) of a key below dense_key_limit_ makes key the new
\* limit, puts every formerly dense key j > key into key_map_ at position
\* j - 1, and moves every entry key_map_ had down by one position; and
\* removing key 1 from {a:0, b:1, c:2} leaves the limit 1, Find(0) = a,
\* Find(1) = "", Find(2) = c through key_map_, and c with key 2.
C10_DenseRemovalMigrates ==
  /\ \A key \in 0..(dense_key_limit - 1) :
       LET t2 == RemoveSymbol(Table, key)
       IN  /\ t2.dense_key_limit = key
           /\ \A j \in (key + 1)..(dense_key_limit - 1) :
                /\ j \in DOMAIN t2.key_map
                /\ t2.key_map[j] = j - 1
           /\ \A k \in DOMAIN key_map :
                /\ k \in DOMAIN t2.key_map
                /\ t2.key_map[k] = key_map[k] - 1
  /\ (in_order.ok /\ Len(in_order.added) = 3) =>
       LET t2 == RemoveSymbol(Table, 1)
       IN  /\ t2.dense_key_limit = 1
           /\ Find(t2, 0) = in_order.added[1]
           /\ ~Present(t2, 1)
           /\ FindUsesKeyMap(t2, 2)
           /\ Find(t2, 2) = in_order.added[3]
           /\ ReverseFind(t2, in_order.added[3]) = 2

\* C11: for every reachable table, Read of what Write wrote is a table whose
\* CheckSum() and LabeledCheckSum() are those of the table written.
C11_BinaryRoundTrip ==
  LET impl == Read(Write(Table))
  IN  /\ ~IsNull(impl)
      /\ MaybeRecomputeCheckSum(impl).check_sum_string
           = MaybeRecomputeCheckSum(Table).check_sum_string
      /\ MaybeRecomputeCheckSum(impl).labeled_check_sum_string
           = MaybeRecomputeCheckSum(Table).labeled_check_sum_string

\* C12: Read returns no table for a stream whose first value is not the magic
\* number, and for a stream that ends before the header or the declared
\* number of records is complete.
C12_ReadRejectsBadStreams ==
  LET strm == Write(Table)
  IN  /\ IsNull(Read([strm EXCEPT ![1] = kSymbolTableMagicNumber + 1]))
      /\ \A n \in 0..(Len(strm) - 1) : IsNull(Read(SubSeq(strm, 1, n)))

\* The keys held by the symbols of t.
HeldKeys(t) == {ReverseFind(t, s) : s \in Stored(t)}
\* t after a caller changed the key of its symbol s: removed, added again.
WithKeyChanged(t, s, key) ==
  AddSymbol(RemoveSymbol(t, ReverseFind(t, s)), s, key).t

\* C14: CompatSymbols is true when a table is absent, when the flag is off
\* or when the labeled checksums are equal, and false otherwise; it is true
\* of a table and itself, and of a table and the same table under another
\* name, and false of a table and the same table with the key of one symbol
\* changed to a key it does not hold.
C14_CompatSymbols ==
  /\ \A flag \in BOOLEAN, syms1 \in {NullPtr, Table},
        syms2 \in {NullPtr, Table} \cup {AddSymbol(Table, s, available_key).t :
                                            s \in Symbols} :
       CompatSymbols(flag, syms1, syms2)
         = (\/ IsNull(syms1)
            \/ IsNull(syms2)
            \/ ~flag
            \/ LabeledCheckSumOf(syms1) = LabeledCheckSumOf(syms2))
  /\ CompatSymbols(TRUE, Table, Table)
  /\ \A nm \in Names : CompatSymbols(TRUE, Table, [Table EXCEPT !.name = nm])
  /\ \A s \in Stored(Table), key \in (kNoSymbol - 2)..(MaxKey + 1) :
       (key # kNoSymbol /\ key \notin HeldKeys(Table))
         => ~CompatSymbols(TRUE, Table, WithKeyChanged(Table, s, key))

IsInteger(col) == \E e \in IntegerTexts : e.text = col
IntegerOf(col) == (CHOOSE e \in IntegerTexts : e.text = col).value
\* What C15 calls a malformed line.
Malformed(d, allow_negative_labels) ==
  /\ d.cols # <<>>
  /\ \/ Len(d.cols) # 2
     \/ ~IsInteger(d.cols[2])
     \/ IntegerOf(d.cols[2]) = kNoSymbol
     \/ (IntegerOf(d.cols[2]) < 0 /\ ~allow_negative_labels)
\* The AddSymbol calls that well-formed lines stand for.
RECURSIVE TypedCalls(_)
TypedCalls(ds) ==
  IF ds = <<>> THEN <<>>
  ELSE (IF Head(ds).cols = <<>> THEN <<>>
        ELSE <<<<SymbolOf(Head(ds).cols[1]), IntegerOf(Head(ds).cols[2])>>>>)
         \o TypedCalls(Tail(ds))

\* C15: ReadText returns no table if some line that is not blank is
\* malformed; otherwise it returns the table that AddSymbol(symbol, key),
\* called for the lines in order, builds.
C15_ReadTextAllOrNothing ==
  loaded.done =>
    IF \E i \in 1..Len(typed) : Malformed(typed[i], loaded.allow_negative_labels)
    THEN loaded.null
    ELSE /\ ~loaded.null
         /\ Table = Replay(NewSymbolTableImpl("syms"), TypedCalls(typed))

Pairs(t) == {<<GetSymbol(t, pos), GetNthKey(t, pos)>> : pos \in 0..(Size(t) - 1)}
\* C16's tables: keys unique and not negative, symbols not empty and
\* without a separator or a newline.
TextWritable(t) ==
  /\ \A p1 \in 0..(Size(t) - 1), p2 \in 0..(Size(t) - 1) :
       p1 # p2 => GetNthKey(t, p1) # GetNthKey(t, p2)
  /\ \A pos \in 0..(Size(t) - 1) :
       /\ GetNthKey(t, pos) >= 0
       /\ StrOf(GetSymbol(t, pos)) # <<>>
       /\ Range(StrOf(GetSymbol(t, pos)))
            \cap (Range(DefaultSeparator) \cup {"\n"}) = {}

\* C16: ReadText of what WriteText wrote, both with the default options,
\* returns a table with the (symbol, key) pairs of the table written.
C16_TextRoundTrip ==
  TextWritable(Table) =>
    LET opts == SymbolTableTextOptions(FALSE)
        impl == ReadText(WriteText(Table, opts), "syms", opts)
    IN  /\ ~IsNull(impl)
        /\ Pairs(impl) = Pairs(Table)

\* C17: every mutation request on the immutable table ends in LOG(FATAL) and
\* changes no member of the table.
C17_ConstMutationIsFatal == [][fatal' /\ UNCHANGED tvars]_vars

\* C17's case: a mutation was requested on an immutable table of two
\* symbols, one of them with a sparse key.
C17_Witness ==
  /\ fatal
  /\ Len(symbols) = 2
  /\ dense_key_limit = 1

\* C18: after AddTable(table) every symbol of table is stored; every symbol
\* stored before has the key it had; every new symbol has the key that
\* available_key_ was when it was added; Size() is the number of distinct
\* symbols of both tables; and a second AddTable(table) changes nothing.
C18_AddTableAddsSymbolsOnly ==
  \A table \in SourceTables :
    LET added == IteratedSymbols(table)
        ts == AddSymbols(<<Table>>, added)
        t2 == AddTable(Table, table)
    IN  /\ Stored(table) \subseteq Stored(t2)
        /\ \A s \in Stored(Table) :
             /\ s \in Stored(t2)
             /\ ReverseFind(t2, s) = ReverseFind(Table, s)
        /\ \A n \in 1..Len(added) :
             added[n] \notin Stored(ts[n])
               => ReverseFind(t2, added[n]) = ts[n].available_key
        /\ Size(t2) = Cardinality(Stored(Table) \cup Stored(table))
        /\ AddTable(t2, table) = t2

\* C19: in a DenseSymbolMap that started with 16 buckets and into which
\* distinct strings were inserted with InsertOrFind, across two doublings of
\* buckets_, no string is lost or stored twice: Size() is the number of
\* distinct strings inserted; Find of each stored string is its position and
\* Find of any other string is kEmptyBucket; InsertOrFind of a stored string
\* returns its position and false and leaves the strings as they are; and
\* InsertOrFind of a new string returns Size() and true and stores it last, so
\* that the i-th string inserted is at position i.
C19_IndexGrowth ==
  /\ Len(symbols) = Cardinality(Range(symbols))
  /\ \A i \in 1..Len(symbols) : DenseFind(symbols, buckets, symbols[i]) = i - 1
  /\ \A key \in IndexSymbols :
       LET r == InsertOrFind(symbols, buckets, key)
       IN  IF key \in Range(symbols)
           THEN /\ r.first = DenseFind(symbols, buckets, key)
                /\ ~r.second
                /\ r.symbols = symbols
                /\ \A i \in 1..Len(symbols) :
                     DenseFind(r.symbols, r.buckets, symbols[i]) = i - 1
           ELSE /\ DenseFind(symbols, buckets, key) = kEmptyBucket
                /\ r.first = Len(symbols)
                /\ r.second
                /\ r.symbols = Append(symbols, key)

\* C19's case: more than 24 strings are stored and buckets_ has doubled
\* twice, from 16 to 64.
C19_Witness ==
  /\ 2 * Len(symbols) > 3 * kInitialBuckets
  /\ NumBuckets(buckets) = 4 * kInitialBuckets


\* C18's case: a table that holds a sparse key, after a removal lowered
\* available_key_, to which AddTable can add a table that shares one symbol
\* with it and brings a new one.
C18_Witness ==
  /\ Len(symbols) >= 2
  /\ Len(symbols) > dense_key_limit
  /\ \E s \in Stored(Table) : ReverseFind(Table, s) > available_key
  /\ \E table \in SourceTables :
       /\ Stored(table) \cap Stored(Table) # {}
       /\ Stored(table) \ Stored(Table) # {}

InCheckSum(th) == pc[th] \in {"check_sum", "labeled_check_sum", "finalize"}

\* C13: on a table no writer mutates, whose checksums were not valid, the
\* checksums are computed at most once; a thread computes them only while
\* it holds check_sum_mutex_ exclusively and no thread holds it shared; and a
\* thread has returned only if check_sum_finalized_ is set and the cached
\* checksums are those of the table's contents.
C13_ComputedOnceUnderExclusiveLock ==
  /\ recomputations <= 1
  /\ \A th \in Threads :
       /\ InCheckSum(th) =>
            /\ check_sum_mutex.writer = th
            /\ check_sum_mutex.readers = {}
       /\ pc[th] = "returned" =>
            /\ check_sum_finalized
            /\ check_sum_string = CheckSum(Table)
            /\ labeled_check_sum_string = LabeledCheckSum(Table)

\* C13's case: every thread has returned, one of them after it computed the
\* checksums of a table with a sparse key, another after it waited for the
\* exclusive lock.
C13_Witness ==
  /\ \A th \in Threads : pc[th] = "returned"
  /\ recomputations = 1
  /\ Len(symbols) > dense_key_limit
  /\ Len(symbols) >= 2

\* C20: every call of MaybeRecomputeCheckSum returns.
C20_EveryCallReturns ==
  \A th \in Threads : (pc[th] = "reader_lock") ~> (pc[th] = "returned")

\* C20's case: a thread waits for the exclusive lock while another thread
\* holds it.
C20_Witness ==
  \E th \in Threads :
    /\ pc[th] = "lock"
    /\ check_sum_mutex.writer \notin {0, th}

\* The table a caller builds by adding the symbols of t in their storage order
\* with the keys keys[1], keys[2], ...
KeyedLike(t, keys) ==
  Replay(NewSymbolTableImpl(t.name),
         [i \in 1..Size(t) |-> <<GetSymbol(t, i - 1), keys[i]>>])
\* The keys 0, 1, ... and the keys n, n - 1, ... for n symbols.
DenseKeys(t) == [i \in 1..Size(t) |-> i - 1]
DescendingKeys(t) == [i \in 1..Size(t) |-> Size(t) + 1 - i]

\* C21: the labeled checksum is computed over the lines <symbol, key> of the
\* keys below dense_key_limit_ in ascending order, then of the entries of
\* key_map_ with a key not below dense_key_limit_ in ascending key order; no
\* entry of key_map_ with a key below dense_key_limit_, and so no negative
\* key, contributes a line, and adding or removing a symbol with a negative
\* key leaves the labeled checksum as it was.  The label-agnostic checksum is
\* computed over the symbols in storage order and is the same for tables with
\* the same symbols in the same order under other keys.
C21_CheckSumStreams ==
  LET lab == LabeledCheckSum(Table)
      sparse == {k \in DOMAIN key_map : k >= dense_key_limit}
  IN  /\ Len(lab) = dense_key_limit + Cardinality(sparse)
      /\ \A i \in 1..dense_key_limit :
           lab[i] = [symbol |-> symbols[i], key |-> i - 1]
      /\ \A i \in (dense_key_limit + 1)..Len(lab) :
           /\ lab[i].key \in sparse
           /\ lab[i].symbol = GetSymbol(Table, key_map[lab[i].key])
           /\ \A j \in (i + 1)..Len(lab) : lab[i].key < lab[j].key
      /\ \A i \in 1..Len(lab) : lab[i].key >= 0
      /\ \A s \in Symbols \ Stored(Table), k \in {kNoSymbol - 1, kNoSymbol - 2} :
           LabeledCheckSum(AddSymbol(Table, s, k).t) = lab
      /\ \A k \in DOMAIN key_map :
           k < 0 => LabeledCheckSum(RemoveSymbol(Table, k)) = lab
      /\ CheckSum(Table)
           = [i \in 1..Len(symbols) |-> [symbol |-> symbols[i], nul |-> 0]]
      /\ CheckSum(KeyedLike(Table, DenseKeys(Table))) = CheckSum(Table)
      /\ CheckSum(KeyedLike(Table, DescendingKeys(Table))) = CheckSum(Table)

\* C21's case: a table with a dense key, a sparse key above the dense range
\* and a negative key, whose keys are neither 0, 1, ... nor n, n - 1, ...
C21_Witness ==
  /\ dense_key_limit >= 1
  /\ \E k \in DOMAIN key_map : k >= dense_key_limit
  /\ \E k \in DOMAIN key_map : k < 0
  /\ KeyedLike(Table, DenseKeys(Table)).key_map # key_map
  /\ KeyedLike(Table, DescendingKeys(Table)).key_map # key_map

\* n is 2^k for some k >= 0.
RECURSIVE IsPowerOfTwo(_)
IsPowerOfTwo(n) == n = 1 \/ (n > 1 /\ n % 2 = 0 /\ IsPowerOfTwo(n \div 2))

\* C22: every InsertOrFind and every RemoveSymbol of a DenseSymbolMap leaves
\* a number of buckets that is a power of two and not smaller than before,
\* and at most 75% as many strings as buckets, so that a bucket is empty and
\* the probe for any string, stored or not, stops within one round of the
\* buckets.
C22_ProbeTerminates ==
  [][/\ IsPowerOfTwo(NumBuckets(buckets'))
     /\ NumBuckets(buckets') >= NumBuckets(buckets)
     /\ 4 * Len(symbols') <= 3 * NumBuckets(buckets')
     /\ \E b \in 1..NumBuckets(buckets') : buckets'[b] = kEmptyBucket
     /\ \A key \in IndexSymbols :
          ProbeLength(symbols', buckets', GetHash(key, buckets'), key,
                      NumBuckets(buckets')) <= NumBuckets(buckets')
    ]_vars

\* C22's case: after a removal from the middle and a doubling of the buckets,
\* an insertion has left the map exactly 75% full.
C22_Witness ==
  /\ ~Consecutive
  /\ NumBuckets(buckets) > kInitialBuckets
  /\ 4 * Len(symbols) = 3 * NumBuckets(buckets)

\* C23: in a DenseSymbolMap after any InsertOrFind and RemoveSymbol calls,
\* every bucket is kEmptyBucket or a position below Size(), every position
\* below Size() is in exactly one bucket, no string is stored twice, and the
\* probe from the hash bucket of each stored string reaches its position
\* before an empty bucket; RemoveSymbol(idx) removes the string at idx and no
\* other, and every later string moves down by one position, in the order
\* they had.
C23_IndexConsistent ==
  /\ \A b \in 1..NumBuckets(buckets) :
       buckets[b] = kEmptyBucket \/ buckets[b] \in 0..(Len(symbols) - 1)
  /\ \A pos \in 0..(Len(symbols) - 1) :
       Cardinality({b \in 1..NumBuckets(buckets) : buckets[b] = pos}) = 1
  /\ \A i, j \in 1..Len(symbols) : symbols[i] = symbols[j] => i = j
  /\ \A i \in 1..Len(symbols) : DenseFind(symbols, buckets, symbols[i]) = i - 1
  /\ \A idx \in 0..(Len(symbols) - 1) :
       LET r == DenseRemoveSymbol(symbols, buckets, idx)
       IN  /\ Len(r.symbols) = Len(symbols) - 1
           /\ \A i \in 1..idx : r.symbols[i] = symbols[i]
           /\ \A i \in (idx + 1)..Len(r.symbols) : r.symbols[i] = symbols[i + 1]
           /\ \A i \in 1..Len(r.symbols) :
                DenseFind(r.symbols, r.buckets, r.symbols[i]) = i - 1

\* C23's case: strings were removed from the middle and from the front of a
\* map that had grown, and others inserted after them, so that stored strings
\* share hash buckets and positions differ from the order of the strings'
\* first insertion.
C23_Witness ==
  /\ ~Consecutive
  /\ symbols[1] > 0
  /\ NumBuckets(buckets) > kInitialBuckets
  /\ \E i, j \in 1..Len(symbols) :
       i # j /\ GetHash(symbols[i], buckets) = GetHash(symbols[j], buckets)

\* C24: when no call of AddSymbol gives a new symbol kNoSymbol or a key that
\* a stored symbol holds, then after any calls of AddSymbol and RemoveSymbol
\* the key of the symbol that a present key resolves to is that key, the
\* symbol that the key of a stored symbol resolves to is that symbol, and
\* there are as many present keys as stored symbols.
C24_FindAndReverseFindAreInverse ==
  LET present == {k \in Keys : Present(Table, k)}
  IN  /\ \A k \in present : ReverseFind(Table, Find(Table, k)) = k
      /\ \A s \in Stored(Table) :
           /\ Present(Table, ReverseFind(Table, s))
           /\ Find(Table, ReverseFind(Table, s)) = s
      /\ HeldKeys(Table) \subseteq Keys
      /\ Cardinality(present) = Size(Table)

\* C24's case: a table with a dense key, a negative key, and a key above
\* the dense range with the key in between held by no symbol.
C24_Witness ==
  /\ dense_key_limit >= 1
  /\ \E k \in DOMAIN key_map : k < 0
  /\ \E k \in DOMAIN key_map : k > dense_key_limit
  /\ ~Present(Table, dense_key_limit)

\* C25: in a table that was empty and has since seen only AddSymbol(symbol),
\* RemoveSymbol and AddTable, available_key_ is not negative and is greater
\* than the key of every stored symbol, so the key AddSymbol(symbol) gives a
\* new symbol is held by no other symbol, also during an AddTable; and after
\* RemoveSymbol of the key available_key_ - 1 of a stored symbol,
\* available_key_ is that key and the next AddSymbol(symbol) of a new symbol
\* gives it that key.
C25_AvailableKeyAboveHeldKeys ==
  /\ available_key >= 0
  /\ \A k \in HeldKeys(Table) : k < available_key
  /\ \A s \in Symbols \ Stored(Table) :
       LET r == AddSymbolNoKey(Table, s)
       IN  /\ r.inserted
           /\ r.ret = available_key
           /\ r.ret \notin HeldKeys(Table)
           /\ ReverseFind(r.t, s) = r.ret
  /\ \A table \in SourceTables :
       LET ts == AddSymbols(<<Table>>, IteratedSymbols(table))
       IN  \A n \in 1..Len(ts) :
             /\ ts[n].available_key >= 0
             /\ \A k \in HeldKeys(ts[n]) : k < ts[n].available_key
  /\ Present(Table, available_key - 1) =>
       LET t1 == RemoveSymbol(Table, available_key - 1)
       IN  /\ ~Present(t1, available_key - 1)
           /\ t1.available_key = available_key - 1
           /\ \A s \in Symbols \ Stored(t1) :
                LET r == AddSymbolNoKey(t1, s)
                IN  /\ r.ret = available_key - 1
                    /\ ReverseFind(r.t, s) = available_key - 1

\* C25's case: after a removal below it, the key available_key_ - 1 is held,
\* a smaller key is held by no symbol, and a symbol is left to add.
C25_Witness ==
  /\ Present(Table, available_key - 1)
  /\ \E k \in 0..(available_key - 1) : ~Present(Table, k)
  /\ Stored(Table) # Symbols

\* C26: in every table reached by AddSymbol and RemoveSymbol calls, calls
\* that give a new symbol a key another symbol holds included, each key that
\* Find resolves to a stored symbol is the key of that symbol: for every
\* entry of key_map_ with a key outside the dense range, idx_key_ has that
\* key at the entry's position.
C26_ResolvedKeyIsKeyOfSymbol ==
  /\ \A k \in Keys :
       Present(Table, k) => ReverseFind(Table, Find(Table, k)) = k
  /\ \A k \in DOMAIN key_map :
       (k < 0 \/ k >= dense_key_limit) =>
         /\ key_map[k] \in dense_key_limit..(Len(symbols) - 1)
         /\ idx_key[key_map[k] - dense_key_limit + 1] = k

\* C26's case: two stored symbols hold the same key.
C26_Witness ==
  \E s1, s2 \in Stored(Table) :
    /\ s1 # s2
    /\ ReverseFind(Table, s1) = ReverseFind(Table, s2)

\* C27: when AddSymbol calls of a writer that takes no lock interleave with
\* MaybeRecomputeCheckSum in other threads, then whenever no call is under
\* way and check_sum_finalized_ is set, the cached checksums are those of the
\* table's contents.
C27_NoStaleValidCheckSums ==
  (/\ \A th \in DOMAIN pc : pc[th] \in {"idle", "returned"}
   /\ check_sum_finalized)
    => /\ check_sum_string = CheckSum(Table)
       /\ labeled_check_sum_string = LabeledCheckSum(Table)
====
